---- MODULE Spec2Model ----
(***************************************************************************)
(* Model of Tiled's CreateObjectTool (src/tiled/createobjecttool.cpp): the *)
(* tool that stages one new map object in a private object group while the *)
(* pointer moves, and on release/Enter pushes an AddMapObject command       *)
(* (with an AddTileset child when needed) on the document's undo stack, or  *)
(* on Escape/right press/deactivation deletes the staged object.            *)
(*                                                                         *)
(* The tool's handlers are translated as operators from a state record to   *)
(* a state record, composed the way the C++ functions call each other.      *)
(* The collaborators that are not part of createobjecttool.cpp (the undo    *)
(* stack and its commands, the renderer, the snap helper, the document's    *)
(* layers and their lock/visibility flags) are modelled at their interface. *)
(***************************************************************************)
EXTENDS Integers, Sequences, FiniteSets

(* ------------------------------ bounds -------------------------------- *)

\* Number of map objects the subclass hook may allocate in one run.
MaxObjects == 2
\* Number of object layers of the document.
NumLayers == 2
\* Number of tilesets a created tile object may refer to.
NumTilesets == 1

Null == 0

Layers == 1..NumLayers
ObjectIds == 1..MaxObjects
TilesetIds == 1..NumTilesets

\* Scene positions the pointer events carry.
Positions == {<<12, 1>>, <<16, 4>>}
\* Keyboard modifiers, named by the snap policy they select.
Modifiers == {"free", "grid", "pixel"}
Buttons == {"left", "right", "middle"}
Keys == {"enter", "return", "escape", "other"}
\* What the subclass hook createNewMapObject() may return: nothing, or an
\* object whose cell refers to a tile of tileset t (Null: no tile).
NoObject == <<"null", Null>>
HookResults == {NoObject} \cup {<<"object", t>> : t \in {Null} \cup TilesetIds}

(* ------------------------------ state --------------------------------- *)

VARIABLES
    crashed,             \* the process was aborted by a failed Q_ASSERT (a debug build)
    mNewMapObjectItem,   \* Null, or the live MapObjectItem (named by its map object)
    mapObjectItems,      \* live MapObjectItems under mObjectGroupItem: object -> shown position
    mNewMapObjectGroup,  \* the staging ObjectGroup: [objects, color, offset]
    mObjectGroupItem,    \* the staging group's scene item: [pos]
    mapObjects,          \* live MapObjects: id -> [position, tileset]
    nextObject,          \* number of objects the hook has allocated
    currentLayer,        \* the document's current object layer, or Null
    currentFlags,        \* [locked, visible] of the current object layer
    layers,              \* layer -> the objects of the layer, in order
    tilesets,            \* the map's tilesets, in order
    undoStack,           \* [commands, index]
    selectedObjects,     \* the document's selection, in order
    last,                \* the event handled last and what it did
    placement,           \* the document when the running placement started
    history              \* the document contents at each index of the undo stack

vars == <<crashed, mNewMapObjectItem, mapObjectItems, mNewMapObjectGroup,
          mObjectGroupItem, mapObjects, nextObject, currentLayer, currentFlags,
          layers,
          tilesets, undoStack, selectedObjects, last,
          placement, history>>

\* The state as one record, for the handler operators.
cur ==
    [crashed |-> crashed, item |-> mNewMapObjectItem,
     items |-> mapObjectItems, group |-> mNewMapObjectGroup,
     groupItem |-> mObjectGroupItem, objects |-> mapObjects,
     nextObject |-> nextObject, currentLayer |-> currentLayer,
     currentFlags |-> currentFlags,
     layers |-> layers, tilesets |-> tilesets, undoStack |-> undoStack,
     selected |-> selectedObjects, last |-> last,
     placement |-> placement, history |-> history]

Set(s) ==
    /\ crashed' = s.crashed
    /\ mNewMapObjectItem' = s.item
    /\ mapObjectItems' = s.items
    /\ mNewMapObjectGroup' = s.group
    /\ mObjectGroupItem' = s.groupItem
    /\ mapObjects' = s.objects
    /\ nextObject' = s.nextObject
    /\ currentLayer' = s.currentLayer
    /\ currentFlags' = s.currentFlags
    /\ layers' = s.layers
    /\ tilesets' = s.tilesets
    /\ undoStack' = s.undoStack
    /\ selectedObjects' = s.selected
    /\ last' = s.last
    /\ placement' = s.placement
    /\ history' = s.history

(* ----------------------------- helpers -------------------------------- *)

Range(q) == {q[i] : i \in 1..Len(q)}

Without(q, x) == SelectSeq(q, LAMBDA y : y # x)

\* f with key k removed from its domain.
Drop(f, k) == [x \in (DOMAIN f) \ {k} |-> f[x]]

\* f with key k bound to v (k may be new).
Bind(f, k, v) == [x \in (DOMAIN f) \cup {k} |-> IF x = k THEN v ELSE f[x]]

Minus(p, q) == <<p[1] - q[1], p[2] - q[2]>>

\* What the last event did is noted in last: "none" at the start of every
\* event, then "started", "refused" or "aborted" by a start, "updated",
\* "cancelled", "degraded" (a finish that cancelled), "committed", "switched"
\* (the tool manager was asked for the selection tool) or "delegated" (only
\* the base class handler ran).
Note(s, what) == [s EXCEPT !.last = what]

(* -------------------- collaborators (at the interface) ----------------- *)

\* Layer::color() of an object layer.
Color(l) == l

\* Layer::totalOffset() of an object layer.
TotalOffset(l) == <<4 * (l - 1), 2 * (l - 1)>>

\* Height of a tile in pixels; an isometric tile is twice as wide.
TileHeight == 4

\* x coordinate of the isometric origin (mapHeight * tileWidth / 2).
OriginX == 8

\* MapRenderer::screenToPixelCoords of an isometric map.
screenToPixelCoords(p) ==
    LET x == p[1] - OriginX
        tileY == p[2]
        tileX == x \div 2
    IN  <<tileY + tileX, tileY - tileX>>

\* v rounded to the nearest multiple of unit (halves round up).
RoundTo(v, unit) == ((2 * v + unit) \div (2 * unit)) * unit

\* SnapHelper(renderer, modifiers).snap(pixelCoords): coordinates are kept in
\* half pixels, so "pixel" rounds to 2 and "grid" to a whole tile.
snap(p, modifiers) ==
    CASE modifiers = "grid" -> <<RoundTo(p[1], 2 * TileHeight), RoundTo(p[2], 2 * TileHeight)>>
      [] modifiers = "pixel" -> <<RoundTo(p[1], 2), RoundTo(p[2], 2)>>
      [] OTHER -> p

\* Layer::isUnlocked() and Layer::isVisible(), asked of the current object
\* layer only (the one currentObjectGroup() returned).
isUnlocked(s, l) == ~s.currentFlags.locked
isVisible(s, l) == s.currentFlags.visible

\* AbstractObjectTool::currentObjectGroup().
currentObjectGroup(s) == s.currentLayer

\* The undo commands: AddMapObject(objectGroup, mapObject) with its child
\* commands, each an AddTileset(tileset).
AddMapObject(l, o, children) == [objectGroup |-> l, mapObject |-> o, children |-> children]

\* The atomic steps of a command in redo order: its children first, then
\* the insertion of the object.
CommandSteps(c) ==
    [i \in 1..Len(c.children) |-> <<"AddTileset", c.children[i]>>]
        \o << <<"AddMapObject", c.mapObject, c.objectGroup>> >>

\* One atomic step applied to the document, forwards or backwards.
RedoStep(s, step) ==
    IF step[1] = "AddTileset"
    THEN [s EXCEPT !.tilesets = Append(@, step[2])]
    ELSE [s EXCEPT !.layers[step[3]] = Append(@, step[2])]

UndoStep(s, step) ==
    IF step[1] = "AddTileset"
    THEN [s EXCEPT !.tilesets = Without(@, step[2])]
    ELSE [s EXCEPT !.layers[step[3]] = Without(@, step[2]),
                   !.selected = Without(@, step[2])]

RECURSIVE RedoSteps(_, _, _)
RedoSteps(s, steps, i) ==
    IF i > Len(steps) THEN s ELSE RedoSteps(RedoStep(s, steps[i]), steps, i + 1)

RECURSIVE UndoSteps(_, _, _)
UndoSteps(s, steps, i) ==
    IF i < 1 THEN s ELSE UndoSteps(UndoStep(s, steps[i]), steps, i - 1)

\* QUndoCommand::redo() and undo() of the composite command.
CommandRedo(s, c) == RedoSteps(s, CommandSteps(c), 1)
CommandUndo(s, c) == UndoSteps(s, CommandSteps(c), Len(CommandSteps(c)))

\* QUndoStack::push(): the undone commands above the index are deleted (a
\* deleted AddMapObject that is undone owns its object and deletes it), the
\* command is executed and becomes the top of the stack.
push(s, c) ==
    LET kept == SubSeq(s.undoStack.commands, 1, s.undoStack.index)
        gone == {s.undoStack.commands[i].mapObject :
                    i \in (s.undoStack.index + 1)..Len(s.undoStack.commands)}
        t == [s EXCEPT !.objects = [o \in (DOMAIN s.objects) \ gone |-> s.objects[o]],
                       !.undoStack = [commands |-> Append(kept, c),
                                      index |-> s.undoStack.index + 1]]
    IN  CommandRedo(t, c)

\* MapDocument::setSelectedObjects().
setSelectedObjects(s, objs) == [s EXCEPT !.selected = objs]

\* ToolManager::selectTool(): the tool manager's state is not this tool's;
\* that the switch was asked for is recorded.
selectTool(s, tool) == Note(s, "switched")

\* The base class handlers of AbstractObjectTool: they do not touch the
\* state of this tool; that they ran is recorded.
AbstractObjectTool_handler(s) == IF s.last = "none" THEN Note(s, "delegated") ELSE s

\* A failed Q_ASSERT aborts the process in a debug build and is no code at
\* all in a release build; asserts says what a failed Q_ASSERT does in this
\* run. The two builds behave alike up to the first failed Q_ASSERT. A run
\* that has staged a second object has passed one, so it is a release build.
Asserts(s) == IF Len(s.group.objects) > 1 THEN {"skip"} ELSE {"abort", "skip"}

abort(s) == [Note(s, "aborted") EXCEPT !.crashed = TRUE]

(* ------------------------- CreateObjectTool --------------------------- *)

\* An update that smooths the pointer: the object moves half of the way from
\* where it is to the computed position.
mouseMovedWhileCreatingObject_Smoothed(s, pos, modifiers) ==
    LET target == snap(screenToPixelCoords(pos), modifiers)
        was == s.objects[s.item].position
        pixelCoords == <<(was[1] + target[1]) \div 2, (was[2] + target[2]) \div 2>>
        t == [s EXCEPT !.objects[s.item].position = pixelCoords,
                       !.items[s.item] = pixelCoords]
    IN  IF t.last \in {"none", "delegated"} THEN Note(t, "updated") ELSE t

\* Default implementation: synchronizes the position of the new object with
\* the mouse position, and the item with the object.
mouseMovedWhileCreatingObject(s, pos, modifiers) ==
    LET pixelCoords == snap(screenToPixelCoords(pos), modifiers)
        t == [s EXCEPT !.objects[s.item].position = pixelCoords,
                       !.items[s.item] = pixelCoords]
    IN  IF t.last \in {"none", "delegated"} THEN Note(t, "updated") ELSE t

\* The second half of startNewMapObject: the object the hook made gets its
\* position and joins the staging group, the group takes the color and the
\* offset of the target layer, and the item of the object is created.
stageNewMapObject(s, pos, objectGroup, hook) ==
    LET newMapObject == s.nextObject + 1
        t == [s EXCEPT
                !.nextObject = newMapObject,
                !.objects = Bind(@, newMapObject,
                                 [position |-> pos, tileset |-> hook[2]]),
                !.group = [objects |-> Append(@.objects, newMapObject),
                           color |-> Color(objectGroup),
                           offset |-> TotalOffset(objectGroup)],
                !.groupItem.pos = TotalOffset(objectGroup),
                !.item = newMapObject,
                !.items = Bind(@, newMapObject, pos)]
    IN  Note(t, "started")

\* A start that does not ask whether the layer is unlocked.
startNewMapObject_Unlocked(s, pos, objectGroup, hook, asserts) ==
    IF s.item # Null /\ asserts = "abort"
    THEN abort(s)
    ELSE IF hook = NoObject
    THEN Note(s, "refused")
    ELSE stageNewMapObject(s, pos, objectGroup, hook)

\* A start that registers the tileset of the new object with the map at once.
startNewMapObject_AddsTileset(s, pos, objectGroup, hook, asserts) ==
    IF s.item # Null /\ asserts = "abort"
    THEN abort(s)
    ELSE IF ~isUnlocked(s, objectGroup)
    THEN Note(s, "refused")
    ELSE IF hook = NoObject
    THEN Note(s, "refused")
    ELSE [stageNewMapObject(s, pos, objectGroup, hook) EXCEPT
            !.tilesets = IF hook[2] # Null /\ hook[2] \notin Range(@)
                         THEN Append(@, hook[2]) ELSE @]

\* A start that dresses the staging group for the layer before it asks the
\* hook for an object.
startNewMapObject_DressesFirst(s, pos, objectGroup, hook, asserts) ==
    IF s.item # Null /\ asserts = "abort"
    THEN abort(s)
    ELSE IF ~isUnlocked(s, objectGroup)
    THEN Note(s, "refused")
    ELSE IF hook = NoObject
    THEN Note([s EXCEPT !.group.color = Color(objectGroup),
                        !.group.offset = TotalOffset(objectGroup),
                        !.groupItem.pos = TotalOffset(objectGroup)], "refused")
    ELSE stageNewMapObject(s, pos, objectGroup, hook)

startNewMapObject(s, pos, objectGroup, hook, asserts) ==
    IF s.item # Null /\ asserts = "abort"
    THEN abort(s)
    ELSE IF ~isUnlocked(s, objectGroup)
    THEN Note(s, "refused")
    ELSE IF hook = NoObject
    THEN Note(s, "refused")
    ELSE stageNewMapObject(s, pos, objectGroup, hook)

\* Deletes the new map object item; its map object is s.item of the state
\* it is applied to.
clearNewMapObjectItem(s) ==
    IF s.item = Null
    THEN abort(s)
    ELSE [s EXCEPT !.group.objects = Without(@, s.item),
                   !.items = Drop(@, s.item),
                   !.item = Null]

\* A cancel that takes the object out through the undo stack: it pushes the
\* insertion and undoes it, which leaves an undone command behind.
cancelNewMapObject_ThroughUndoStack(s) ==
    LET t == clearNewMapObjectItem(s)
        c == AddMapObject(s.currentLayer, s.item, <<>>)
    IN  IF t.crashed
        THEN t
        ELSE IF s.currentLayer = Null
        THEN Note([t EXCEPT !.objects = Drop(@, s.item)], "cancelled")
        ELSE Note([CommandUndo(push(t, c), c) EXCEPT !.undoStack.index = @ - 1],
                  "cancelled")

cancelNewMapObject(s) ==
    LET t == clearNewMapObjectItem(s)
    IN  IF t.crashed
        THEN t
        ELSE Note([t EXCEPT !.objects = Drop(@, s.item)], "cancelled")

\* A finish that inserts into the layer the placement was started on, which
\* the staging group was dressed for.
finishNewMapObject_StartLayer(s) ==
    LET objectGroup == currentObjectGroup(s)
    IN  IF s.item = Null
        THEN abort(s)
        ELSE IF objectGroup = Null
        THEN Note(cancelNewMapObject(s), "degraded")
        ELSE LET newMapObject == s.item
                 t == clearNewMapObjectItem(s)
                 tileset == s.objects[newMapObject].tileset
                 children == IF tileset # Null /\ tileset \notin Range(s.tilesets)
                             THEN <<tileset>>
                             ELSE <<>>
                 addObjectCommand == AddMapObject(s.group.color, newMapObject, children)
                 u == setSelectedObjects(push(t, addObjectCommand), <<newMapObject>>)
             IN  Note(u, "committed")

\* A finish that adds a missing tileset to the map directly, outside the
\* pushed command.
finishNewMapObject_TilesetOutsideCommand(s) ==
    LET objectGroup == currentObjectGroup(s)
    IN  IF s.item = Null
        THEN abort(s)
        ELSE IF objectGroup = Null
        THEN Note(cancelNewMapObject(s), "degraded")
        ELSE LET newMapObject == s.item
                 t == clearNewMapObjectItem(s)
                 tileset == s.objects[newMapObject].tileset
                 w == IF tileset # Null /\ tileset \notin Range(s.tilesets)
                      THEN [t EXCEPT !.tilesets = Append(@, tileset)]
                      ELSE t
                 addObjectCommand == AddMapObject(objectGroup, newMapObject, <<>>)
                 u == setSelectedObjects(push(w, addObjectCommand), <<newMapObject>>)
             IN  Note(u, "committed")

\* A finish that does not ask whether the map has the tileset already.
finishNewMapObject_TilesetAlways(s) ==
    LET objectGroup == currentObjectGroup(s)
    IN  IF s.item = Null
        THEN abort(s)
        ELSE IF objectGroup = Null
        THEN Note(cancelNewMapObject(s), "degraded")
        ELSE LET newMapObject == s.item
                 t == clearNewMapObjectItem(s)
                 tileset == s.objects[newMapObject].tileset
                 children == IF tileset # Null THEN <<tileset>> ELSE <<>>
                 addObjectCommand == AddMapObject(objectGroup, newMapObject, children)
                 u == setSelectedObjects(push(t, addObjectCommand), <<newMapObject>>)
             IN  Note(u, "committed")

\* A finish that adds the new object to the selection instead of replacing it.
finishNewMapObject_ExtendsSelection(s) ==
    LET objectGroup == currentObjectGroup(s)
    IN  IF s.item = Null
        THEN abort(s)
        ELSE IF objectGroup = Null
        THEN Note(cancelNewMapObject(s), "degraded")
        ELSE LET newMapObject == s.item
                 t == clearNewMapObjectItem(s)
                 tileset == s.objects[newMapObject].tileset
                 children == IF tileset # Null /\ tileset \notin Range(s.tilesets)
                             THEN <<tileset>>
                             ELSE <<>>
                 addObjectCommand == AddMapObject(objectGroup, newMapObject, children)
                 u == push(t, addObjectCommand)
             IN  Note(setSelectedObjects(u, Append(u.selected, newMapObject)),
                      "committed")

finishNewMapObject(s) ==
    LET objectGroup == currentObjectGroup(s)
    IN  IF s.item = Null
        THEN abort(s)
        ELSE IF objectGroup = Null
        THEN Note(cancelNewMapObject(s), "degraded")
        ELSE LET newMapObject == s.item
                 t == clearNewMapObjectItem(s)
                 tileset == s.objects[newMapObject].tileset
                 children == IF tileset # Null /\ tileset \notin Range(s.tilesets)
                             THEN <<tileset>>
                             ELSE <<>>
                 addObjectCommand == AddMapObject(objectGroup, newMapObject, children)
                 u == setSelectedObjects(push(t, addObjectCommand), <<newMapObject>>)
             IN  Note(u, "committed")

\* The staging group's item joins the scene; no handler reads whether it
\* is in the scene.
activate(s) == AbstractObjectTool_handler(s)

deactivate(s) ==
    LET t == IF s.item # Null THEN cancelNewMapObject(s) ELSE s
    IN  AbstractObjectTool_handler(t)

keyPressed(s, key) ==
    CASE key \in {"enter", "return"} ->
            IF s.item # Null
            THEN finishNewMapObject(s)
            ELSE AbstractObjectTool_handler(s)
      [] key = "escape" ->
            IF s.item # Null
            THEN cancelNewMapObject(s)
            ELSE selectTool(s, "select")
      [] OTHER -> AbstractObjectTool_handler(s)

\* A pointer move that hands the scene position on as it came, without
\* taking the offset of the staging group off.
mouseMoved_ScenePosition(s, pos, modifiers) ==
    LET t == AbstractObjectTool_handler(s)
    IN  IF t.item # Null
        THEN mouseMovedWhileCreatingObject(t, pos, modifiers)
        ELSE t

\* A pointer move that starts a placement when none is running.
mouseMoved_StartsWhenIdle(s, pos, modifiers) ==
    LET t == AbstractObjectTool_handler(s)
        objectGroup == currentObjectGroup(t)
    IN  IF t.item # Null
        THEN mouseMovedWhileCreatingObject(t, Minus(pos, t.group.offset), modifiers)
        ELSE IF objectGroup # Null /\ t.nextObject < MaxObjects
        THEN stageNewMapObject(t, pos, objectGroup, <<"object", Null>>)
        ELSE t

mouseMoved(s, pos, modifiers) ==
    LET t == AbstractObjectTool_handler(s)
    IN  IF t.item # Null
        THEN mouseMovedWhileCreatingObject(t, Minus(pos, t.group.offset), modifiers)
        ELSE t

\* Starts a new object on the left button, cancels on the right button.
mousePressed(s, button, scenePos, modifiers, hook, asserts) ==
    CASE button = "right" ->
            IF s.item # Null THEN cancelNewMapObject(s) ELSE s
      [] button # "left" -> AbstractObjectTool_handler(s)
      [] OTHER ->
            LET objectGroup == currentObjectGroup(s)
            IN  IF objectGroup = Null \/ ~isVisible(s, objectGroup)
                THEN s
                ELSE LET offsetPos == Minus(scenePos, TotalOffset(objectGroup))
                         pixelCoords == snap(screenToPixelCoords(offsetPos), modifiers)
                         t == startNewMapObject(s, pixelCoords, objectGroup, hook, asserts)
                     IN  IF t.last = "started"
                         THEN mouseMovedWhileCreatingObject(t, offsetPos, modifiers)
                         ELSE t

mouseReleased(s) ==
    IF s.item # Null THEN finishNewMapObject(s) ELSE s

(* ------------------------- events and steps --------------------------- *)

\* The map objects the document owns: those in a layer and those held by
\* an undone command.
DocumentObjects(s) ==
    UNION {Range(s.layers[l]) : l \in Layers}
        \cup {s.undoStack.commands[i].mapObject : i \in 1..Len(s.undoStack.commands)}

\* The persistent document: layers with their objects, tilesets, undo stack.
Document(s) ==
    [layers |-> s.layers,
     current |-> <<s.currentLayer, s.currentFlags>>,
     objects |-> [o \in DocumentObjects(s) \cap DOMAIN s.objects |-> s.objects[o]],
     tilesets |-> s.tilesets,
     undoStack |-> s.undoStack]

\* What undo and redo restore: the objects of each layer and the tilesets.
Contents(s) ==
    [layers |-> s.layers, tilesets |-> s.tilesets]

\* An unlocked and visible layer.
Editable == [locked |-> FALSE, visible |-> TRUE]

NoPlacement == [clean |-> FALSE, document |-> <<>>]

\* An event starts with a fresh note of what it does.
Begin(s) == Note(s, "none")

\* After the handler: the bookkeeping of the running placement (started by
\* a successful start, kept by updates and by the cancel that ends it) and
\* of the document contents per undo index.
End(pre, post) ==
    [post EXCEPT
        !.placement =
            IF post.last = "started"
            THEN [clean |-> TRUE, document |-> Document(pre)]
            ELSE IF pre.placement.clean /\ pre.item # Null
                    /\ post.last \in {"updated", "cancelled"}
            THEN pre.placement
            ELSE NoPlacement,
        !.history =
            IF post.last = "committed"
            THEN Append(SubSeq(pre.history, 1, pre.undoStack.index + 1), Contents(post))
            ELSE pre.history]

Handle(s) == \E post \in {s} : \E t \in {End(cur, post)} : Set(t)

Init ==
    /\ crashed = FALSE
    /\ mNewMapObjectItem = Null
    /\ mapObjectItems = <<>>
    /\ mNewMapObjectGroup = [objects |-> <<>>, color |-> Null, offset |-> <<0, 0>>]
    /\ mObjectGroupItem = [pos |-> <<0, 0>>]
    /\ mapObjects = <<>>
    /\ nextObject = 0
    /\ currentLayer = 1
    /\ currentFlags = Editable
    /\ layers = [l \in Layers |-> <<>>]
    /\ tilesets = <<>>
    /\ undoStack = [commands |-> <<>>, index |-> 0]
    /\ selectedObjects = <<>>
    /\ last = "none"
    /\ placement = NoPlacement
    /\ history = <<[layers |-> [l \in Layers |-> <<>>], tilesets |-> <<>>]>>

\* The hook can allocate an object only while the model has one left.
Hooks(s) == IF s.nextObject < MaxObjects THEN HookResults ELSE {NoObject}

Activate ==
    /\ ~crashed
    /\ Handle(activate(Begin(cur)))

Deactivate ==
    /\ ~crashed
    /\ Handle(deactivate(Begin(cur)))

KeyPressed ==
    /\ ~crashed
    /\ \E key \in Keys : Handle(keyPressed(Begin(cur), key))

MouseMoved ==
    /\ ~crashed
    /\ \E pos \in Positions, modifiers \in Modifiers :
          Handle(mouseMoved(Begin(cur), pos, modifiers))

\* The position, the modifiers and the hook are read on a left press only,
\* and a Q_ASSERT can fail only when an item exists.
MousePressed ==
    /\ ~crashed
    /\ \E button \in Buttons :
          \E pos \in IF button = "left" THEN Positions ELSE {<<0, 0>>},
             modifiers \in IF button = "left" THEN Modifiers ELSE {"free"},
             hook \in IF button = "left" THEN Hooks(cur) ELSE {NoObject},
             asserts \in IF button = "left" /\ mNewMapObjectItem # Null
                         THEN Asserts(cur) ELSE {"skip"} :
            Handle(mousePressed(Begin(cur), button, pos, modifiers, hook, asserts))

MouseReleased ==
    /\ ~crashed
    /\ Handle(mouseReleased(Begin(cur)))

\* The document changes under the tool: another object layer (or none)
\* becomes current, with the lock and visibility it has by then; or the
\* current layer is locked, unlocked, hidden or shown.
SetCurrentLayer ==
    /\ ~crashed
    /\ \E l \in {Null} \cup Layers, locked \in BOOLEAN, visible \in BOOLEAN :
          /\ l = Null => ~locked /\ visible
          /\ Handle([Begin(cur) EXCEPT
                       !.currentLayer = l,
                       !.currentFlags = [locked |-> locked, visible |-> visible]])

SetLayerLocked ==
    /\ ~crashed
    /\ currentLayer # Null
    /\ Handle([Begin(cur) EXCEPT !.currentFlags.locked = ~@])

SetLayerVisible ==
    /\ ~crashed
    /\ currentLayer # Null
    /\ Handle([Begin(cur) EXCEPT !.currentFlags.visible = ~@])

\* QUndoStack::undo() and redo().
Undo ==
    /\ ~crashed
    /\ undoStack.index > 0
    /\ Handle([CommandUndo(Begin(cur), undoStack.commands[undoStack.index])
                 EXCEPT !.undoStack.index = @ - 1])

Redo ==
    /\ ~crashed
    /\ undoStack.index < Len(undoStack.commands)
    /\ Handle([CommandRedo(Begin(cur), undoStack.commands[undoStack.index + 1])
                 EXCEPT !.undoStack.index = @ + 1])

Next ==
    \/ Activate
    \/ Deactivate
    \/ KeyPressed
    \/ MouseMoved
    \/ MousePressed
    \/ MouseReleased
    \/ SetCurrentLayer
    \/ SetLayerLocked
    \/ SetLayerVisible
    \/ Undo
    \/ Redo

Spec == Init /\ [][Next]_vars

TypeOK ==
    /\ mNewMapObjectItem \in {Null} \cup ObjectIds
    /\ nextObject \in 0..MaxObjects
    /\ last \in {"none", "started", "refused", "aborted", "updated", "cancelled",
                 "degraded", "committed", "switched", "delegated"}

(* ------------------------------ properties ---------------------------- *)

\* The tool is Placing while it has an item, as the handlers test it.
Placing == mNewMapObjectItem # Null

\* The in-progress objects: those the staging group holds.
Pending(s) == s.group.objects

\* The visual proxies: the live items under the staging group's item.
Proxies(s) == DOMAIN s.items

\* Every tool event that can arrive in state s, with the state it leaves:
\* pairs <<event, state after>>.
ToolSteps(s) ==
    LET b == Begin(s)
    IN  {<<"activate", activate(b)>>, <<"deactivate", deactivate(b)>>,
         <<"release", mouseReleased(b)>>}
        \cup {<<key, keyPressed(b, key)>> : key \in Keys}
        \cup {<<"move", mouseMoved(b, pos, modifiers)>> :
                 pos \in Positions, modifiers \in Modifiers}
        \cup {<<"right", mousePressed(b, "right", <<0, 0>>, "free", NoObject, "skip")>>,
              <<"middle", mousePressed(b, "middle", <<0, 0>>, "free", NoObject, "skip")>>}
        \cup UNION {UNION {UNION {
                {<<"left", mousePressed(b, "left", pos, modifiers, hook, asserts)>> :
                    asserts \in IF s.item # Null THEN Asserts(s) ELSE {"skip"}} :
                hook \in Hooks(s)} : modifiers \in Modifiers} : pos \in Positions}

\* The parts of the document C2 and C6 speak of.
Persistent(s) == <<s.layers, s.tilesets, s.undoStack>>

\* C1: the staging group never holds more than one in-progress object (nor
\* more than one proxy): a second start leaves the first pending object alone
\* and creates nothing.
C1_AtMostOnePending ==
    /\ Len(Pending(cur)) <= 1
    /\ Cardinality(Proxies(cur)) <= 1

\* C2: when a placement that was started and then only updated is cancelled,
\* the document (layers with their objects, tilesets, undo stack) is what it
\* was before the start.
C2_CancelLeavesDocument ==
    (last = "cancelled" /\ placement.clean) => Document(cur) = placement.document

C2_Witness ==
    /\ last = "cancelled"
    /\ placement.clean
    /\ undoStack.index = 1
    /\ tilesets # <<>>

\* C3: every commit added exactly one entry to the undo stack (there is one
\* recorded document per entry), and at every index of the stack, reached by
\* undo or by redo, the layers and the tilesets are exactly what they were
\* when the stack was at that index before.
C3_UndoRedoRestore ==
    /\ Len(history) = Len(undoStack.commands) + 1
    /\ Contents(cur) = history[undoStack.index + 1]
    /\ last = "committed" => undoStack.index = Len(undoStack.commands)

\* An undone commit whose entry had added the tileset: object and tileset
\* are gone again.
C3_Witness ==
    /\ undoStack.index = 0
    /\ Len(undoStack.commands) = 1
    /\ undoStack.commands[1].children # <<>>
    /\ tilesets = <<>>
    /\ \A l \in Layers : layers[l] = <<>>

NoDuplicates(q) == \A i, j \in 1..Len(q) : q[i] = q[j] => i = j

\* C4: an entry whose object refers to a tileset the map did not have when
\* the entry was pushed adds that tileset and then the object; any other
\* entry adds the object only; the map never lists a tileset twice.
C4_TilesetBeforeObject ==
    /\ NoDuplicates(tilesets)
    /\ \A i \in 1..Len(undoStack.commands) :
          LET c == undoStack.commands[i]
              tileset == mapObjects[c.mapObject].tileset
              insert == <<"AddMapObject", c.mapObject, c.objectGroup>>
          IN  /\ i <= Len(history)
              /\ IF tileset # Null /\ tileset \notin Range(history[i].tilesets)
                 THEN CommandSteps(c) = << <<"AddTileset", tileset>>, insert >>
                 ELSE CommandSteps(c) = << insert >>

\* Two entries for objects of the same tileset: the first added the tileset,
\* the second did not.
C4_Witness ==
    /\ undoStack.index = 2
    /\ undoStack.commands[1].children = <<1>>
    /\ undoStack.commands[2].children = <<>>
    /\ mapObjects[undoStack.commands[2].mapObject].tileset = 1
    /\ tilesets = <<1>>

\* C5: a left press while the current layer is locked or invisible never
\* starts: no object is allocated or staged and no item is created.
C5_LayerGating ==
    (~crashed /\ currentLayer # Null /\ (currentFlags.locked \/ ~currentFlags.visible)) =>
        \A e \in ToolSteps(cur) :
            e[1] = "left" =>
                /\ e[2].last # "started"
                /\ e[2].nextObject = nextObject
                /\ e[2].objects = mapObjects
                /\ Pending(e[2]) = Pending(cur)
                /\ e[2].items = mapObjectItems
                /\ e[2].item = mNewMapObjectItem

\* A start was refused on a locked (and visible) layer while Idle.
C5_Witness ==
    /\ last = "refused"
    /\ currentFlags.locked
    /\ currentFlags.visible
    /\ ~Placing
    /\ nextObject < MaxObjects

\* C6: of all tool events only a finish (release, Enter or Return while
\* Placing) that commits changes the layers, the tilesets or the undo stack,
\* and it adds one entry to the undo stack.
C6_OnlyFinishMutates ==
    ~crashed =>
        \A e \in ToolSteps(cur) :
            Persistent(e[2]) # Persistent(cur) =>
                /\ e[1] \in {"release", "enter", "return"}
                /\ Placing
                /\ e[2].last = "committed"
                /\ e[2].undoStack.index = undoStack.index + 1
                /\ Len(e[2].undoStack.commands) = undoStack.index + 1

\* A finish has committed a tile object: layer, tilesets and the undo stack
\* have changed.
C6_Witness ==
    /\ last = "committed"
    /\ undoStack.index = 1
    /\ tilesets = <<1>>
    /\ \E l \in Layers : layers[l] # <<>>

\* The state after an event is Idle: no pending object, no proxy, no item.
Idle(s) == s.item = Null /\ Pending(s) = <<>> /\ Proxies(s) = {}

\* C7: an event that ended a placement (release, Enter or Return, which
\* commit or degrade to cancel; Escape, right press or deactivate, which
\* cancel) has left no pending object and no proxy.
C7_EndsPlacing ==
    last \in {"committed", "degraded", "cancelled"} => ~crashed /\ Idle(cur)

\* C8: a finish (release, Enter, Return while Placing) with no current object
\* layer destroys the pending object and its proxy, pushes nothing, leaves
\* document and selection alone, and leaves the tool Idle.
C8_FinishWithoutLayer ==
    [][last' = "degraded" =>
          /\ Document(cur)' = Document(cur)
          /\ selectedObjects' = selectedObjects
          /\ mNewMapObjectItem \notin DOMAIN mapObjects'
          /\ Idle(cur)']_vars

\* C9: an object is committed only into a layer that is unlocked and visible
\* at the commit.
C9_CommitOnlyEditable ==
    last = "committed" => (~currentFlags.locked /\ currentFlags.visible)

\* C10: after a commit the selection is exactly the inserted object; a cancel
\* and a finish that degrades to cancel leave the selection alone.
C10_SelectsNewObject ==
    /\ last = "committed" =>
          /\ selectedObjects = <<undoStack.commands[undoStack.index].mapObject>>
          /\ selectedObjects[1] \in Range(layers[currentLayer])
    /\ ~crashed =>
          \A e \in ToolSteps(cur) :
              e[2].last \in {"cancelled", "degraded"} => e[2].selected = selectedObjects

\* The second commit replaced a selection that held the first object.
C10_Witness ==
    /\ last = "committed"
    /\ undoStack.index = 2
    /\ selectedObjects = <<2>>
    /\ \E l \in Layers : 1 \in Range(layers[l])

\* The position of the object the item shows.
PendingPosition(s) == s.objects[s.item].position

\* C11: while Placing, a pointer move with a given position and modifiers
\* leaves the same pending position when it is repeated, and the same
\* position whatever update came before it.
C11_UpdateIdempotent ==
    (~crashed /\ Placing) =>
        \A pos \in Positions, modifiers \in Modifiers :
            LET once == mouseMoved(Begin(cur), pos, modifiers)
            IN  /\ once.item = mNewMapObjectItem
                /\ PendingPosition(mouseMoved(Begin(once), pos, modifiers))
                      = PendingPosition(once)
                /\ \A pos0 \in Positions, modifiers0 \in Modifiers :
                      PendingPosition(mouseMoved(Begin(mouseMoved(Begin(cur), pos0,
                                                                  modifiers0)),
                                                 pos, modifiers))
                          = PendingPosition(once)

\* A pointer move has updated the pending object of a placement on the
\* second layer to a grid position away from the origin.
C11_Witness ==
    /\ last = "updated"
    /\ Placing
    /\ mNewMapObjectGroup.offset # <<0, 0>>
    /\ PendingPosition(cur) # <<0, 0>>
    /\ PendingPosition(cur)[1] % (2 * TileHeight) = 0
    /\ PendingPosition(cur)[2] % (2 * TileHeight) = 0

\* C12: the tool is Idle until the hook has made its first object; from
\* Idle, a left press leaves Idle exactly when the current layer is there,
\* visible and unlocked and the hook returns an object, and every other
\* event leaves the tool Idle and creates no object.
C12_LeavesIdleOnlyByPress ==
    /\ nextObject = 0 => Idle(cur)
    /\ (~crashed /\ Idle(cur)) =>
          /\ \A e \in ToolSteps(cur) :
                e[1] # "left" =>
                    /\ Idle(e[2])
                    /\ ~e[2].crashed
                    /\ e[2].nextObject = nextObject
                    /\ e[2].objects = mapObjects
          /\ \A pos \in Positions, modifiers \in Modifiers, hook \in Hooks(cur) :
                LET t == mousePressed(Begin(cur), "left", pos, modifiers, hook, "skip")
                    valid == /\ currentLayer # Null
                             /\ currentFlags.visible
                             /\ ~currentFlags.locked
                             /\ hook # NoObject
                IN  /\ ~t.crashed
                    /\ valid => (t.item # Null /\ Pending(t) = <<t.item>>
                                 /\ Proxies(t) = {t.item})
                    /\ ~valid => (Idle(t) /\ t.nextObject = nextObject
                                  /\ t.objects = mapObjects)

\* Only the base handler ran for an event that arrived while the tool was
\* Idle on a layer where a press could have started.
C12_Witness ==
    /\ last = "delegated"
    /\ Idle(cur)
    /\ currentLayer # Null
    /\ currentFlags = Editable
    /\ nextObject = 1
    /\ undoStack.index = 1

\* C13: a right press while Idle is passed to the base handler, and so is a
\* left press in every situation but Idle with a current layer that is
\* visible and unlocked, after which the tool is Idle.
C13_PressDelegated ==
    ~crashed =>
        /\ Idle(cur) =>
              mousePressed(Begin(cur), "right", <<0, 0>>, "free", NoObject, "skip").last
                  = "delegated"
        /\ \A pos \in Positions, modifiers \in Modifiers, hook \in Hooks(cur),
               asserts \in Asserts(cur) :
              LET t == mousePressed(Begin(cur), "left", pos, modifiers, hook, asserts)
                  valid == /\ Idle(cur)
                           /\ currentLayer # Null
                           /\ currentFlags.visible
                           /\ ~currentFlags.locked
              IN  ~valid => (t.last = "delegated" /\ Idle(t))

\* What the claim C14 says of the Escape key pressed in state s.
EscapeModes(s) ==
    LET t == keyPressed(Begin(s), "escape")
    IN  /\ ~t.crashed
        /\ t.last # "delegated"
        /\ Idle(t)
        /\ t.nextObject = s.nextObject
        /\ IF s.item # Null
           THEN t.last = "cancelled" /\ s.item \notin DOMAIN t.objects
           ELSE t.last = "switched" /\ t.objects = s.objects

\* C14: Escape while Idle asks for the selection tool and creates nothing;
\* Escape while Placing cancels the pending object and asks for no tool; the
\* base key handler sees neither and the tool is Idle afterwards.
C14_EscapeModes ==
    ~crashed => EscapeModes(cur)

\* C14 where the staging group holds the object of the item and no other.
C14_FromOnePending ==
    (~crashed /\ Pending(cur) = (IF Placing THEN <<mNewMapObjectItem>> ELSE <<>>)
        /\ Proxies(cur) = Range(Pending(cur))) => EscapeModes(cur)

\* Where a pointer at scene position p, with offset o taken off, puts the
\* object under the modifiers m.
Placed(p, o, m) == snap(screenToPixelCoords(Minus(p, o)), m)

\* C15: a left press that starts leaves the pending object (and its proxy)
\* at the snapped position of the press, taken relative to the total offset
\* of the target layer, which the staging group has copied; a later pointer
\* move leaves it at the snapped position of the move, relative to the
\* offset the staging group holds; a committing finish inserts the object
\* with the position it had.
C15_PendingPosition ==
    ~crashed =>
        /\ \A pos \in Positions, modifiers \in Modifiers, hook \in Hooks(cur),
               asserts \in Asserts(cur) :
              LET t == mousePressed(Begin(cur), "left", pos, modifiers, hook, asserts)
                  o == TotalOffset(currentLayer)
              IN  t.last = "started" =>
                      /\ t.group.offset = o
                      /\ PendingPosition(t) = Placed(pos, o, modifiers)
                      /\ t.items[t.item] = PendingPosition(t)
        /\ Placing =>
              /\ \A pos \in Positions, modifiers \in Modifiers :
                    LET t == mouseMoved(Begin(cur), pos, modifiers)
                    IN  /\ t.item = mNewMapObjectItem
                        /\ PendingPosition(t)
                              = Placed(pos, mNewMapObjectGroup.offset, modifiers)
                        /\ t.items[t.item] = PendingPosition(t)
              /\ \A e \in ToolSteps(cur) :
                    e[2].last = "committed" =>
                        /\ mNewMapObjectItem \in Range(e[2].layers[currentLayer])
                        /\ e[2].objects[mNewMapObjectItem].position
                              = PendingPosition(cur)

\* An object was committed into the second layer where an update had put it:
\* away from the origin of the layer, on a whole pixel but not on the grid.
C15_Witness ==
    /\ last = "committed"
    /\ currentLayer = 2
    /\ LET o == undoStack.commands[undoStack.index].mapObject
       IN  /\ o \in Range(layers[2])
           /\ mapObjects[o].position = Placed(<<16, 4>>, TotalOffset(2), "pixel")
           /\ mapObjects[o].position # Placed(<<16, 4>>, TotalOffset(1), "pixel")

\* C16: a left press that reaches start on a locked layer, or with the hook
\* returning nothing, is refused and changes nothing: no object, no proxy,
\* the staging group and its item, the document, the undo stack and the
\* selection are what they were, and no update follows (the pending position,
\* if there is one, stays). A debug build that is Placing does not get as far:
\* it is aborted on entry to start.
C16_FailedStartChangesNothing ==
    (~crashed /\ currentLayer # Null /\ currentFlags.visible) =>
        \A pos \in Positions, modifiers \in Modifiers, hook \in Hooks(cur),
           asserts \in Asserts(cur) :
            LET t == mousePressed(Begin(cur), "left", pos, modifiers, hook, asserts)
            IN  (currentFlags.locked \/ hook = NoObject) =>
                    \/ t.crashed /\ Placing /\ asserts = "abort"
                    \/ /\ t.last = "refused"
                       /\ [t EXCEPT !.last = "none"] = Begin(cur)

\* The hook declined on the second layer, unlocked and visible, while it had
\* objects left; the staging group still wears the first layer's color.
C16_Witness ==
    /\ last = "refused"
    /\ currentLayer = 2
    /\ currentFlags = Editable
    /\ nextObject = 1
    /\ mNewMapObjectGroup.color = Color(1)
    /\ mNewMapObjectGroup.offset = TotalOffset(1)
    /\ ~Placing

\* C17: while an object is pending and there is a current object layer, the
\* staging group has the color and the total offset of that layer.
C17_StagingMirrorsLayer ==
    (Pending(cur) # <<>> /\ currentLayer # Null) =>
        /\ mNewMapObjectGroup.color = Color(currentLayer)
        /\ mNewMapObjectGroup.offset = TotalOffset(currentLayer)
        /\ mObjectGroupItem.pos = TotalOffset(currentLayer)

\* C18: a committing finish pushes one command, which inserts the pending
\* object into the layer that is current at the finish; every other layer,
\* the one the placement was started on included, keeps its objects.
C18_CommitsIntoCurrentLayer ==
    (~crashed /\ Placing) =>
        \A e \in ToolSteps(cur) :
            e[2].last = "committed" =>
                /\ Len(e[2].undoStack.commands) = undoStack.index + 1
                /\ e[2].undoStack.index = undoStack.index + 1
                /\ e[2].undoStack.commands[undoStack.index + 1].objectGroup = currentLayer
                /\ e[2].undoStack.commands[undoStack.index + 1].mapObject
                      = mNewMapObjectItem
                /\ e[2].layers[currentLayer]
                      = Append(layers[currentLayer], mNewMapObjectItem)
                /\ \A l \in Layers \ {currentLayer} : e[2].layers[l] = layers[l]

\* A placement started on the first layer (whose color the staging group
\* still wears) was committed while the second layer was current: the object
\* is in the second layer and the first is empty.
C18_Witness ==
    /\ last = "committed"
    /\ mNewMapObjectGroup.color = Color(1)
    /\ currentLayer = 2
    /\ undoStack.index = 1
    /\ layers[2] = <<undoStack.commands[1].mapObject>>
    /\ layers[1] = <<>>

\* C19: the tool has an item exactly when the staging group holds exactly one
\* object, the item is then the item of that object and the only live one,
\* and without an item no item is live: the step that clears the pending
\* object has destroyed its item.
C19_ProxyIffPending ==
    /\ (mNewMapObjectItem # Null) <=> (Len(Pending(cur)) = 1)
    /\ mNewMapObjectItem # Null =>
          (Pending(cur) = <<mNewMapObjectItem>> /\ Proxies(cur) = {mNewMapObjectItem})
    /\ mNewMapObjectItem = Null => Proxies(cur) = {}

\* The staging group holds the object of the item and no other, and the
\* live items are those of the staged objects.
Consistent(s) ==
    /\ Pending(s) = (IF s.item # Null THEN <<s.item>> ELSE <<>>)
    /\ Proxies(s) = Range(Pending(s))

\* C19 for every event but the left press while Placing (the double start of
\* C1): it keeps the staging group and the item consistent.
C19_FromOnePending ==
    (~crashed /\ Consistent(cur)) =>
        \A e \in ToolSteps(cur) :
            (e[1] # "left" \/ ~Placing) => Consistent(e[2])

\* The owners of object o: the staging group, the document (a layer or a
\* command of the undo stack), or nobody when it has been destroyed.
Owners(o) ==
    {w \in {"staging", "document", "destroyed"} :
        \/ w = "staging" /\ o \in Range(Pending(cur))
        \/ w = "document" /\ o \in DocumentObjects(cur)
        \/ w = "destroyed" /\ o \notin DOMAIN mapObjects}

\* How often the document holds object o in its layers and in its commands.
Holdings(o) ==
    <<Cardinality({<<l, i>> \in Layers \X (1..MaxObjects) :
                      i <= Len(layers[l]) /\ layers[l][i] = o}),
      Cardinality({i \in 1..Len(undoStack.commands) :
                      undoStack.commands[i].mapObject = o})>>

\* What C20 says of the objects the hook has made so far.
OneOwner ==
    /\ \A o \in 1..nextObject :
          /\ Cardinality(Owners(o)) = 1
          /\ Holdings(o)[1] <= 1
          /\ Holdings(o)[2] <= 1
          /\ o \in DocumentObjects(cur) => Holdings(o)[2] = 1
          /\ (~Placing /\ ~crashed) => Owners(o) # {"staging"}
    /\ \A i \in 1..Len(undoStack.commands) :
          undoStack.commands[i].objectGroup \in Layers

\* C20: every object the hook has made is in the staging group, or held by
\* the document (one command of the undo stack, at most one place in one
\* layer), or destroyed, and never two of these; once no placement is
\* running none is left in the staging group; every command inserts into a
\* layer of the document.
C20_OneOwner ==
    OneOwner

\* C20 where the staging group holds the object of the item and no other.
C20_FromOnePending ==
    Consistent(cur) => OneOwner

\* C7 and C8 where the staging group holds the one object of the item.
C7_FromOnePending ==
    (~crashed /\ Placing /\ Len(Pending(cur)) = 1) =>
        \A e \in ToolSteps(cur) :
            e[1] \in {"release", "enter", "return", "escape", "right", "deactivate"} =>
                ~e[2].crashed /\ Idle(e[2])

C8_FromOnePending ==
    (~crashed /\ Placing /\ currentLayer = Null /\ Len(Pending(cur)) = 1) =>
        \A e \in ToolSteps(cur) :
            e[1] \in {"release", "enter", "return"} =>
                /\ e[2].last = "degraded"
                /\ Document(e[2]) = Document(cur)
                /\ e[2].selected = selectedObjects
                /\ mNewMapObjectItem \notin DOMAIN e[2].objects
                /\ Idle(e[2])

====
